---- MODULE Spec2Model ----
(***************************************************************************)
(* Model of the email queue worker (backend/email_service.py: SMTPManager, *)
(* EmailQueue, run_email_processor) and of the SMTP rotation helpers of    *)
(* the API server (backend/server.py: get_next_smtp_config,                *)
(* send_email_via_smtp, pause_campaign).                                   *)
(*                                                                         *)
(* Time is in seconds.  Timestamps are stored by the code as ISO-8601 UTC  *)
(* strings of one fixed offset and compared as strings by the store; for   *)
(* such strings that order is the order of the instants, so a timestamp is *)
(* modelled by its number of seconds.                                      *)
(*                                                                         *)
(* An action is the code between two awaits.  Store operations succeed,    *)
(* except in SpecFaulty: the only failures are those of the mail           *)
(* transport, a missing contact and a missing provider.                    *)
(*                                                                         *)
(* Spec      the worker with NumTriggers interleaved invocations of        *)
(*           process_queue and the clock;                                  *)
(* SpecPause Spec with pause_campaign;                                     *)
(* SpecLimit the worker at one instant, on a queue longer than the query   *)
(*           limit;                                                        *)
(* SpecSmtp  NumSenders API-side sends, each get_next_smtp_config then     *)
(*           send_email_via_smtp.                                          *)
(* SpecRotation  get_next_smtp_config applied to pools of accounts;        *)
(* SpecVariation select_campaign_variation in a restartable server;        *)
(* SpecStart     validate_campaign and start_campaign;                     *)
(* SpecSchedule  CampaignSender.schedule_campaign;                         *)
(* SpecTemplate  personalize_template applied to templates;                *)
(* SpecRoundTrip extract_variables_from_template, then                     *)
(*               personalize_template with the variables it found;         *)
(* SpecDelete    Spec with delete_campaign;                                *)
(* SpecApi       create_contact, upload_contacts_csv and create_campaign   *)
(*               served concurrently;                                      *)
(* SpecConnectionTest  test_smtp_config on every kind of failure;          *)
(* SpecFaulty    the worker at one instant on a store that may raise;      *)
(* SpecLive      the loop of run_email_processor, with fairness.           *)
(***************************************************************************)
EXTENDS Integers, Sequences, FiniteSets, TLC

VARIABLES
    now,                  \* the wall clock, datetime.now(timezone.utc)
    email_queue,          \* db.email_queue, in insertion order
    contacts,             \* db.contacts: the ids of its documents, or the documents
    campaigns,            \* db.campaigns: id -> campaign document
    smtp_configs,         \* db.smtp_configs: id -> account document
    providers,            \* SMTPManager.providers
    last_provider_index,  \* SMTPManager._last_provider_index
    is_processing,        \* EmailQueue.is_processing
    pc,                   \* where each invocation of process_queue stands
    current_time,         \* process_queue's local current_time
    pending_emails,       \* process_queue's local pending_emails
    cursor,               \* position of the for loop in pending_emails
    chosen,               \* provider handed the message by SMTPManager.send_email
    outbox,               \* messages the mail transport accepted, in order
    outbox_mark,          \* Len(outbox) when the invocation entered
    spc,                  \* where each API-side send stands
    sconfig,              \* the account get_next_smtp_config returned to it
    hash_seed,            \* the salt of str hashes of the server process
    rng_state,            \* the state of the server's module-level random
    requests,             \* the contact and campaign requests the API is serving
    call,                 \* the helper or endpoint last called, with its arguments
    ret                   \* what that call returned

vars == <<now, email_queue, contacts, campaigns, smtp_configs, providers,
          last_provider_index, is_processing, pc, current_time, pending_emails,
          cursor, chosen, outbox, outbox_mark, spc, sconfig, hash_seed,
          rng_state, requests, call, ret>>

queueVars == <<email_queue, contacts, providers, last_provider_index,
               is_processing, pc, current_time, pending_emails, cursor, chosen,
               outbox, outbox_mark>>

sendVars == <<spc, sconfig>>

helperVars == <<hash_seed, rng_state, requests, call, ret>>

----
(* Bounds of the model. *)

NumItems == 2
NumTriggers == 2
NumAccounts == 2
NumCampaigns == 1
NumUsers == 2
NumSenders == 2
MaxDailyLimit == 1
TickStep == 600
MaxTime == 1800
NumLimitItems == 11
NumPool == 3
MaxSent == 2
NumSteps == 2
MaxVariations == 2
MaxWeight == 2
MaxNegWeight == 1
MaxSalt == 1
RngSpace == 4
NumSchedContacts == 4
MaxCap == 2
LateStart == 86280
MaxQueued == 8
MaxPieces == 2
NumRequests == 2
NumEmails == 2
MaxRows == 2
ContactsLimit == 2
CampaignsLimit == 1

(* Constants of the program. *)

DefaultMaxAttempts == 3
AttemptsFilter == 3
QueryLimit == 10
BackoffBase == 300
BackoffCap == 3600
DefaultDailyLimit == 50
DefaultDelay == 300
DaySeconds == 86400
NineAM == 32400

Items == 1..NumItems
Passes == 1..NumTriggers
Accounts == 1..NumAccounts
Campaigns == 1..NumCampaigns
Users == 1..NumUsers
Senders == 1..NumSenders
Requests == 1..NumRequests

NoTime == -1
NoError == "<unset>"
NoProvider == 0
NoCall == [fn |-> "none"]
NoRequest == [pc |-> "idle"]
TransportError == "SMTP error"
NoProviderError == "No available email providers"
ContactNotFound == "Contact not found"

Min(a, b) == IF a <= b THEN a ELSE b

OwnerOf(n) == ((n - 1) % NumUsers) + 1

----
(* EmailQueue.add_to_queue: the document it inserts. *)

NewQueueItem(id, campaign_id, contact_id, scheduled_at) ==
    [id |-> id, campaign_id |-> campaign_id, contact_id |-> contact_id,
     status |-> "pending", scheduled_at |-> scheduled_at, attempts |-> 0,
     max_attempts |-> DefaultMaxAttempts, error_message |-> NoError]

(* SMTPManager.load_providers: one provider per active account document. *)

ActiveFilter(config) == config.is_active

LoadProviders(configs) ==
    LET ids == SelectSeq([a \in DOMAIN configs |-> a],
                         LAMBDA a: ActiveFilter(configs[a]))
    IN  [k \in 1..Len(ids) |->
            [id |-> ids[k], daily_limit |-> configs[ids[k]].daily_limit,
             is_active |-> configs[ids[k]].is_active]]

(* EmailProvider.get_daily_sent_count and can_send_today. *)

GetDailySentCount(provider) == 0

CanSendToday(provider) == GetDailySentCount(provider) < provider.daily_limit

(* SMTPManager.get_next_provider: the 1-based position of the provider it    *)
(* returns, NoProvider for None.                                           *)

GetNextProvider ==
    IF Len(providers) = 0 THEN NoProvider
    ELSE LET n == Len(providers)
             ok == {i \in 0..(n - 1) :
                      LET p == providers[((last_provider_index + i) % n) + 1]
                      IN  p.is_active /\ CanSendToday(p)}
         IN  IF ok = {} THEN NoProvider
             ELSE LET i == CHOOSE i \in ok : \A j \in ok : i <= j
                  IN  ((last_provider_index + i) % n) + 1

----
(* EmailQueue.process_queue: the guard and the query. *)

(* The guard as it would be were the flag never consulted. *)
AlreadyProcessingIgnored == FALSE

AlreadyProcessing == is_processing

(* The query filter without its status clause. *)
IsDueAnyStatus(item, t) ==
    /\ item.scheduled_at <= t
    /\ item.attempts < AttemptsFilter

(* The query filter without its scheduled_at clause. *)
IsDueAnyTime(item, t) ==
    /\ item.status = "pending"
    /\ item.attempts < AttemptsFilter

IsDue(item, t) ==
    /\ item.status = "pending"
    /\ item.scheduled_at <= t
    /\ item.attempts < AttemptsFilter

Limit(seq, n) == SubSeq(seq, 1, Min(n, Len(seq)))

FindPending(t) ==
    Limit(SelectSeq(email_queue, LAMBDA item: IsDue(item, t)), QueryLimit)

(* EmailQueue._update_email_status: error None leaves error_message alone. *)
(* The fields nothing reads back (updated_at, message_id, provider,        *)
(* sent_at) are not kept.                                                  *)

UpdateEmailStatus(queue, email_id, status, error) ==
    [i \in DOMAIN queue |->
        IF queue[i].id = email_id
        THEN [queue[i] EXCEPT
                !.status = status,
                !.error_message = IF error # NoError THEN error ELSE @]
        ELSE queue[i]]

(* EmailQueue._retry_or_fail_email, on the item as the query returned it. *)

NextAttempts(email_item) == email_item.attempts + 1

(* The exhaustion test that never gives an item up. *)
ExhaustedNever(attempts, email_item) == FALSE

(* The exhaustion test with > for >=. *)
ExhaustedLate(attempts, email_item) == attempts > email_item.max_attempts

Exhausted(attempts, email_item) == attempts >= email_item.max_attempts

(* The backoff with the exponent taken before the increment. *)
RetryDelayFromPrevious(attempts) ==
    Min(BackoffBase * (2 ^ (attempts - 1)), BackoffCap)

RetryDelay(attempts) == Min(BackoffBase * (2 ^ attempts), BackoffCap)

RetryUpdate(doc, attempts, error) ==
    [doc EXCEPT !.attempts = attempts,
                !.scheduled_at = now + RetryDelay(attempts),
                !.error_message = error]

RetryOrFailEmail(queue, email_item, error) ==
    LET attempts == NextAttempts(email_item)
    IN  IF Exhausted(attempts, email_item)
        THEN UpdateEmailStatus(queue, email_item.id, "failed", error)
        ELSE [i \in DOMAIN queue |->
                IF queue[i].id = email_item.id
                THEN RetryUpdate(queue[i], attempts, error)
                ELSE queue[i]]

CurrentItem(p) == pending_emails[p][cursor[p]]

InCycle(p) == pc[p] \in {"query", "contact", "transport", "sleep"}

(* process_queue, lines 243-250: the flag test, the flag set and the read  *)
(* of the clock run without suspension.                                    *)
ProcessQueueEnter(p) ==
    /\ pc[p] = "idle"
    /\ IF AlreadyProcessing
       THEN /\ pc' = [pc EXCEPT ![p] = "skipped"]
            /\ UNCHANGED <<is_processing, current_time, outbox_mark>>
       ELSE /\ is_processing' = TRUE
            /\ current_time' = [current_time EXCEPT ![p] = now]
            /\ outbox_mark' = [outbox_mark EXCEPT ![p] = Len(outbox)]
            /\ pc' = [pc EXCEPT ![p] = "query"]
    /\ UNCHANGED <<now, email_queue, contacts, campaigns, smtp_configs,
                   providers, last_provider_index, pending_emails, cursor,
                   chosen, outbox, sendVars, helperVars>>

(* process_queue, lines 252-256: the find; an empty result falls through   *)
(* the loop to the finally clause.                                         *)
ProcessQueueQuery(p) ==
    /\ pc[p] = "query"
    /\ LET found == FindPending(current_time[p])
       IN  IF found = <<>>
           THEN /\ is_processing' = FALSE
                /\ current_time' = [current_time EXCEPT ![p] = NoTime]
                /\ pc' = [pc EXCEPT ![p] = "idle"]
                /\ UNCHANGED <<pending_emails, cursor>>
           ELSE /\ pending_emails' = [pending_emails EXCEPT ![p] = found]
                /\ cursor' = [cursor EXCEPT ![p] = 1]
                /\ pc' = [pc EXCEPT ![p] = "contact"]
                /\ UNCHANGED <<is_processing, current_time>>
    /\ UNCHANGED <<now, email_queue, contacts, campaigns, smtp_configs,
                   providers, last_provider_index, chosen, outbox,
                   outbox_mark, sendVars, helperVars>>

(* _send_queued_email, lines 274-285, with SMTPManager.send_email up to    *)
(* the hand-over to the provider: the contact lookup, the provider choice, *)
(* and the outcomes that need no transport.                                *)
SendQueuedEmail(p) ==
    /\ pc[p] = "contact"
    /\ LET email_item == CurrentItem(p)
           k == GetNextProvider
       IN  IF email_item.contact_id \notin contacts
           THEN /\ email_queue' = UpdateEmailStatus(email_queue, email_item.id,
                                        "failed", ContactNotFound)
                /\ pc' = [pc EXCEPT ![p] = "sleep"]
                /\ UNCHANGED <<last_provider_index, chosen>>
           ELSE IF k = NoProvider
           THEN /\ email_queue' = RetryOrFailEmail(email_queue, email_item,
                                                   NoProviderError)
                /\ pc' = [pc EXCEPT ![p] = "sleep"]
                /\ UNCHANGED <<last_provider_index, chosen>>
           ELSE /\ last_provider_index' = k % Len(providers)
                /\ chosen' = [chosen EXCEPT ![p] = k]
                /\ pc' = [pc EXCEPT ![p] = "transport"]
                /\ UNCHANGED email_queue
    /\ UNCHANGED <<now, contacts, campaigns, smtp_configs, providers,
                   is_processing, current_time, pending_emails, cursor,
                   outbox, outbox_mark, sendVars, helperVars>>

(* The provider's send_email returns, and _send_queued_email (lines        *)
(* 288-300) records the result.                                            *)
TransportReply(p, success) ==
    /\ pc[p] = "transport"
    /\ LET email_item == CurrentItem(p)
       IN  IF success
           THEN /\ outbox' = Append(outbox,
                        [email_id |-> email_item.id,
                         account |-> providers[chosen[p]].id])
                /\ email_queue' = UpdateEmailStatus(email_queue, email_item.id,
                                                    "sent", NoError)
           ELSE /\ email_queue' = RetryOrFailEmail(email_queue, email_item,
                                                   TransportError)
                /\ UNCHANGED outbox
    /\ chosen' = [chosen EXCEPT ![p] = NoProvider]
    /\ pc' = [pc EXCEPT ![p] = "sleep"]
    /\ UNCHANGED <<now, contacts, campaigns, smtp_configs, providers,
                   last_provider_index, is_processing, current_time,
                   pending_emails, cursor, outbox_mark, sendVars, helperVars>>

(* process_queue, lines 261-268: the pause after an item, then the next    *)
(* item or the finally clause.                                             *)
PacingSleep(p) ==
    /\ pc[p] = "sleep"
    /\ IF cursor[p] < Len(pending_emails[p])
       THEN /\ cursor' = [cursor EXCEPT ![p] = @ + 1]
            /\ pc' = [pc EXCEPT ![p] = "contact"]
            /\ UNCHANGED <<is_processing, pending_emails, current_time>>
       ELSE /\ is_processing' = FALSE
            /\ pending_emails' = [pending_emails EXCEPT ![p] = <<>>]
            /\ cursor' = [cursor EXCEPT ![p] = 0]
            /\ current_time' = [current_time EXCEPT ![p] = NoTime]
            /\ pc' = [pc EXCEPT ![p] = "idle"]
    /\ UNCHANGED <<now, email_queue, contacts, campaigns, smtp_configs,
                   providers, last_provider_index, chosen, outbox,
                   outbox_mark, sendVars, helperVars>>

(* process_queue, line 244: the invocation that found the flag set has     *)
(* returned; its caller may invoke it again.                               *)
SkippedReturn(p) ==
    /\ pc[p] = "skipped"
    /\ pc' = [pc EXCEPT ![p] = "idle"]
    /\ UNCHANGED <<now, email_queue, contacts, campaigns, smtp_configs,
                   providers, last_provider_index, is_processing, current_time,
                   pending_emails, cursor, chosen, outbox, outbox_mark,
                   sendVars, helperVars>>

(* The clock advances. *)
Tick ==
    /\ now + TickStep <= MaxTime
    /\ now' = now + TickStep
    /\ UNCHANGED <<campaigns, smtp_configs, queueVars, sendVars, helperVars>>

(* server.py pause_campaign. *)
PauseCampaign(c) ==
    /\ campaigns' = [campaigns EXCEPT ![c].status = "paused",
                                      ![c].updated_at = now]
    /\ UNCHANGED <<now, smtp_configs, queueVars, sendVars, helperVars>>

----
(* server.py get_next_smtp_config: the id it returns, NoConfig for None.   *)

NoConfig == 0

UnderLimitInclusive(config) == config.daily_sent_count <= config.daily_limit

UnderLimit(config) == config.daily_sent_count < config.daily_limit

GetNextSmtpConfig(smtp_config_ids, user_id) ==
    LET configs == SelectSeq([a \in DOMAIN smtp_configs |-> a],
                     LAMBDA a: /\ a \in smtp_config_ids
                               /\ smtp_configs[a].user_id = user_id
                               /\ smtp_configs[a].is_active)
        available == SelectSeq(configs, LAMBDA a: UnderLimit(smtp_configs[a]))
    IN  IF smtp_config_ids = {} \/ Len(configs) = 0 \/ Len(available) = 0
        THEN NoConfig
        ELSE LET k == CHOOSE k \in 1..Len(available) :
                        /\ \A j \in 1..Len(available) :
                              smtp_configs[available[k]].daily_sent_count
                                <= smtp_configs[available[j]].daily_sent_count
                        /\ \A j \in 1..(k - 1) :
                              smtp_configs[available[j]].daily_sent_count
                                > smtp_configs[available[k]].daily_sent_count
             IN  available[k]

(* A send on the API side selects its account: the read of                 *)
(* get_next_smtp_config, line 690.                                         *)
SelectConfig(s, smtp_config_ids, user_id) ==
    /\ spc[s] = "idle"
    /\ sconfig' = [sconfig EXCEPT ![s] =
                        GetNextSmtpConfig(smtp_config_ids, user_id)]
    /\ spc' = [spc EXCEPT ![s] = "selected"]
    /\ UNCHANGED <<now, campaigns, smtp_configs, queueVars, helperVars>>

(* No account was returned: the caller has nothing to send with. *)
SelectNone(s) ==
    /\ spc[s] = "selected"
    /\ sconfig[s] = NoConfig
    /\ spc' = [spc EXCEPT ![s] = "idle"]
    /\ UNCHANGED <<now, campaigns, smtp_configs, queueVars, sconfig, helperVars>>

(* send_email_via_smtp, lines 559-567 and 577-578: the transport returns. *)
SmtpTransport(s, success) ==
    /\ spc[s] = "selected"
    /\ sconfig[s] # NoConfig
    /\ spc' = [spc EXCEPT ![s] = IF success THEN "transmitted" ELSE "idle"]
    /\ sconfig' = [sconfig EXCEPT ![s] = IF success THEN @ ELSE NoConfig]
    /\ UNCHANGED <<now, campaigns, smtp_configs, queueVars, helperVars>>

(* send_email_via_smtp, lines 570-573: the $inc of daily_sent_count. *)
IncrementSentCount(s) ==
    /\ spc[s] = "transmitted"
    /\ smtp_configs' = [smtp_configs EXCEPT
                           ![sconfig[s]].daily_sent_count = @ + 1]
    /\ spc' = [spc EXCEPT ![s] = "idle"]
    /\ sconfig' = [sconfig EXCEPT ![s] = NoConfig]
    /\ UNCHANGED <<now, campaigns, queueVars, helperVars>>

----
(* Initial states. *)

(* The account documents: the first nActive accounts are active, all have  *)
(* the daily limit given, and each has sent what counts gives for it.      *)
AccountDocs(nActive, limit, counts) ==
    [a \in Accounts |->
        [user_id |-> OwnerOf(a), is_active |-> (a <= nActive),
         daily_limit |-> limit, daily_sent_count |-> counts[a]]]

(* Everything but the clock. *)
InitProcesses ==
    /\ providers = LoadProviders(smtp_configs)
    /\ last_provider_index = 0
    /\ is_processing = FALSE
    /\ pc = [p \in Passes |-> "idle"]
    /\ current_time = [p \in Passes |-> NoTime]
    /\ pending_emails = [p \in Passes |-> <<>>]
    /\ cursor = [p \in Passes |-> 0]
    /\ chosen = [p \in Passes |-> NoProvider]
    /\ outbox = <<>>
    /\ outbox_mark = [p \in Passes |-> 0]
    /\ spc = [s \in Senders |-> "idle"]
    /\ sconfig = [s \in Senders |-> NoConfig]
    /\ hash_seed = 0
    /\ rng_state = 0
    /\ requests = [r \in Requests |-> NoRequest]
    /\ call = NoCall
    /\ ret = NoCall

InitWorker == now = 0 /\ InitProcesses

InitCampaigns ==
    campaigns = [c \in Campaigns |->
                    [user_id |-> OwnerOf(c), status |-> "scheduled",
                     updated_at |-> 0]]

Init ==
    /\ \E nActive \in 0..NumAccounts : \E limit \in 1..MaxDailyLimit :
          smtp_configs = AccountDocs(nActive, limit, [a \in Accounts |-> 0])
    /\ InitCampaigns
    /\ contacts \in {Items, Items \ {NumItems}}
    /\ \E late \in {{}} \cup {{i} : i \in Items} :
          email_queue = [i \in Items |->
              NewQueueItem(i, ((i - 1) % NumCampaigns) + 1, i,
                           IF i \in late THEN TickStep ELSE 0)]
    /\ InitWorker

InitSmtp ==
    /\ \E nActive \in 0..NumAccounts : \E limit \in 1..MaxDailyLimit :
       \E counts \in [Accounts -> 0..limit] :
          smtp_configs = AccountDocs(nActive, limit, counts)
    /\ InitCampaigns
    /\ contacts = {}
    /\ email_queue = <<>>
    /\ InitWorker

InitLimit ==
    /\ smtp_configs = AccountDocs(NumAccounts, MaxDailyLimit,
                                  [a \in Accounts |-> 0])
    /\ InitCampaigns
    /\ contacts = 1..NumLimitItems
    /\ email_queue = [i \in 1..NumLimitItems |->
          NewQueueItem(i, ((i - 1) % NumCampaigns) + 1, i, 0)]
    /\ InitWorker

----
(* Next-state relations and specifications. *)

Worker ==
    \/ \E p \in Passes : ProcessQueueEnter(p)
    \/ \E p \in Passes : SkippedReturn(p)
    \/ \E p \in Passes : ProcessQueueQuery(p)
    \/ \E p \in Passes : SendQueuedEmail(p)
    \/ \E p \in Passes : \E success \in BOOLEAN : TransportReply(p, success)
    \/ \E p \in Passes : PacingSleep(p)

Next == Worker \/ Tick

NextPause == Worker \/ Tick \/ \E c \in Campaigns : PauseCampaign(c)

NextSmtp ==
    \/ \E s \in Senders : \E ids \in SUBSET Accounts : \E u \in Users :
          SelectConfig(s, ids, u)
    \/ \E s \in Senders : SelectNone(s)
    \/ \E s \in Senders : \E success \in BOOLEAN : SmtpTransport(s, success)
    \/ \E s \in Senders : IncrementSentCount(s)

Spec == Init /\ [][Next]_vars

SpecPause == Init /\ [][NextPause]_vars

SpecSmtp == InitSmtp /\ [][NextSmtp]_vars

SpecLimit == InitLimit /\ [][Worker]_vars

----
(* Properties. *)

Handling(p) == pc[p] \in {"contact", "transport"}

StoredIn(queue, email_id) ==
    queue[CHOOSE i \in DOMAIN queue : queue[i].id = email_id]

Stored(email_id) == StoredIn(email_queue, email_id)

Terminal(item) == item.status \in {"sent", "failed"}

(* The step is one in which invocation p finishes its work on its current  *)
(* item: the outcome is written to the store.                              *)
Settles(p) == Handling(p) /\ pc'[p] = "sleep"

(* C1: process_queue is single-flight.  At most one invocation is past the *)
(* guard at any time and the flag is set exactly while one is; an          *)
(* invocation made while the flag is set returns at once, having changed   *)
(* neither the store, nor the transport's record, nor the flag, nor the    *)
(* provider rotation; so no item is in the hands of two invocations.       *)
C1_MutualExclusion ==
    /\ \A p, q \in Passes : (InCycle(p) /\ InCycle(q)) => p = q
    /\ is_processing <=> (\E p \in Passes : InCycle(p))

C1_SkipIsNoOp ==
    \A p \in Passes :
        (pc[p] = "idle" /\ is_processing /\ pc'[p] # "idle")
            => /\ pc'[p] = "skipped"
               /\ UNCHANGED <<email_queue, outbox, is_processing,
                              last_provider_index, pending_emails, chosen>>

C1_SingleFlight == [] C1_MutualExclusion /\ [][C1_SkipIsNoOp]_vars

C1_Witness ==
    \E p, q \in Passes : pc[p] = "transport" /\ pc[q] = "skipped"

(* C2: terminal states are absorbing.  A stored item whose status is sent  *)
(* or failed is never changed by any step, and no invocation holds such an *)
(* item to send it.                                                        *)
C2_TerminalKept ==
    \A i \in DOMAIN email_queue :
        Terminal(email_queue[i]) => email_queue'[i] = email_queue[i]

C2_TerminalNotHeld ==
    \A p \in Passes :
        Handling(p) => Stored(CurrentItem(p).id).status = "pending"

C2_TerminalAbsorbing == [] C2_TerminalNotHeld /\ [][C2_TerminalKept]_vars

(* A cycle that began after an item was sent is at work on another item. *)
C2_Witness ==
    \E p \in Passes :
        /\ Handling(p)
        /\ outbox_mark[p] > 0
        /\ \E i \in DOMAIN email_queue : email_queue[i].status = "sent"

(* C3: retry boundary.  When the work on a pending item whose attempts is  *)
(* max_attempts - 1 ends without the item being sent, the item is failed,  *)
(* with scheduled_at as it was.                                            *)
C3_Boundary ==
    \A p \in Passes :
        Settles(p) =>
            LET before == Stored(CurrentItem(p).id)
                after == StoredIn(email_queue', CurrentItem(p).id)
            IN  (/\ before.status = "pending"
                 /\ before.attempts = before.max_attempts - 1
                 /\ after.status # "sent")
                    => /\ after.status = "failed"
                       /\ after.scheduled_at = before.scheduled_at

C3_RetryBoundary == [][C3_Boundary]_vars

C3_Witness ==
    \E i \in DOMAIN email_queue :
        /\ email_queue[i].status = "failed"
        /\ email_queue[i].error_message = TransportError

(* C4: an item whose transport attempt failed max_attempts (3) times in a  *)
(* row is failed, stores attempts = 3 and has an error_message.            *)
C4_ThreeFailures ==
    \A i \in DOMAIN email_queue :
        (email_queue[i].status = "failed"
            /\ email_queue[i].error_message = TransportError)
          => /\ email_queue[i].attempts = DefaultMaxAttempts
             /\ email_queue[i].error_message # NoError

(* C5: an item processed while no provider is available stays pending and  *)
(* keeps its attempts.                                                     *)
C5_Deferral ==
    \A p \in Passes :
        (/\ pc[p] = "contact"
         /\ pc'[p] = "sleep"
         /\ CurrentItem(p).contact_id \in contacts
         /\ GetNextProvider = NoProvider)
            => LET before == Stored(CurrentItem(p).id)
                   after == StoredIn(email_queue', CurrentItem(p).id)
               IN  /\ after.status = "pending"
                   /\ after.attempts = before.attempts

C5_NoAccountDeferral == [][C5_Deferral]_vars

(* C6: a retry is one update of the stored item that sets attempts to its  *)
(* successor and scheduled_at to now + min(300 * 2^attempts, 3600), with   *)
(* attempts the count just stored (the failed attempt included); attempts  *)
(* and scheduled_at never change apart; the delay is at most 3600.         *)
C6_RetryStep ==
    \A i \in DOMAIN email_queue :
        LET before == email_queue[i]
            after == email_queue'[i]
        IN  /\ (after.attempts # before.attempts)
                  <=> (after.scheduled_at # before.scheduled_at)
            /\ (after.attempts # before.attempts)
                  => /\ after.attempts = before.attempts + 1
                     /\ after.attempts < before.max_attempts
                     /\ after.status = "pending"
                     /\ after.scheduled_at - now
                          = Min(300 * (2 ^ after.attempts), 3600)
                     /\ after.scheduled_at - now <= 3600

C6_Backoff == [][C6_RetryStep]_vars

C6_Witness ==
    \E i \in DOMAIN email_queue :
        /\ email_queue[i].status = "pending"
        /\ email_queue[i].attempts = DefaultMaxAttempts - 1

(* C7: every item a cycle works on was, in the store when the cycle        *)
(* queried it, pending, scheduled at or before the cycle's time (which is  *)
(* not after now) and below three attempts; the item at the transport is   *)
(* not scheduled after now; a cycle holds at most 10 items.                *)
C7_Dequeued ==
    \A p \in Passes :
        /\ Len(pending_emails[p]) <= 10
        /\ InCycle(p) => current_time[p] <= now
        /\ \A k \in 1..Len(pending_emails[p]) :
              /\ pending_emails[p][k].status = "pending"
              /\ pending_emails[p][k].scheduled_at <= current_time[p]
              /\ pending_emails[p][k].attempts < 3
        /\ Handling(p) => Stored(CurrentItem(p).id).scheduled_at <= now

(* The tenth item of a cycle is at the transport while an eleventh waits. *)
C7_Witness ==
    \E p \in Passes :
        /\ pc[p] = "transport"
        /\ cursor[p] = 10
        /\ Len(email_queue) > 10
        /\ \E i \in DOMAIN email_queue :
              email_queue[i].status = "pending" /\ email_queue[i].attempts = 0

(* C8: no cycle that starts after a campaign was paused works on an item   *)
(* of that campaign while it stays paused.                                 *)
C8_PausedNotDequeued ==
    \A p \in Passes :
        Handling(p) =>
            LET c == campaigns[CurrentItem(p).campaign_id]
            IN  ~(c.status = "paused" /\ c.updated_at < current_time[p])

(* C9: no account's daily_sent_count exceeds its daily_limit. *)
C9_LimitRespected ==
    \A a \in Accounts :
        smtp_configs[a].daily_sent_count <= smtp_configs[a].daily_limit

(* C10: within one cycle the messages sent through an account do not       *)
(* exceed the account's headroom, daily_limit - daily_sent_count.          *)
SentInCycle(p, a) ==
    Cardinality({k \in (outbox_mark[p] + 1)..Len(outbox) :
                    outbox[k].account = a})

C10_HeadroomRespected ==
    \A p \in Passes : \A a \in Accounts :
        InCycle(p) =>
            SentInCycle(p, a)
                <= smtp_configs[a].daily_limit - smtp_configs[a].daily_sent_count

(* C11: a step that turns a stored item to sent adds exactly one to the    *)
(* daily_sent_count of the account that sent it, and a step in which the   *)
(* transport fails leaves every daily_sent_count as it was.                *)
C11_Counted ==
    \A p \in Passes :
        (pc[p] = "transport" /\ pc'[p] = "sleep") =>
            LET account == providers[chosen[p]].id
                after == StoredIn(email_queue', CurrentItem(p).id)
            IN  IF after.status = "sent"
                THEN smtp_configs'[account].daily_sent_count
                        = smtp_configs[account].daily_sent_count + 1
                ELSE smtp_configs' = smtp_configs

C11_SentIsCounted == [][C11_Counted]_vars

----
(* The inbox rotation selector on its own: get_next_smtp_config is applied *)
(* to pools of stored accounts.                                            *)

Pool == 1..NumPool

(* The stored accounts of the rotation runs: one daily limit, any counts   *)
(* up to MaxSent, at most one inactive account and at most one account of  *)
(* another user.                                                           *)
InitRotation ==
    /\ \E limit \in 1..MaxSent : \E counts \in [Pool -> 0..MaxSent] :
       \E inactive \in {{}} \cup {{a} : a \in Pool} :
       \E foreign \in {{}} \cup {{a} : a \in Pool} :
          smtp_configs = [a \in Pool |->
              [user_id |-> IF a \in foreign THEN 2 ELSE 1,
               is_active |-> (a \notin inactive),
               daily_limit |-> limit, daily_sent_count |-> counts[a]]]
    /\ InitCampaigns
    /\ contacts = {}
    /\ email_queue = <<>>
    /\ InitWorker

(* The call of get_next_smtp_config of a run and its result. *)
GetNextSmtpConfigCall(smtp_config_ids, user_id) ==
    /\ call = NoCall
    /\ call' = [fn |-> "get_next_smtp_config",
                smtp_config_ids |-> smtp_config_ids, user_id |-> user_id]
    /\ ret' = [fn |-> "get_next_smtp_config",
               value |-> GetNextSmtpConfig(smtp_config_ids, user_id)]
    /\ UNCHANGED <<now, campaigns, smtp_configs, queueVars, sendVars,
                   hash_seed, rng_state,
                   requests>>

NextRotation ==
    \E smtp_config_ids \in SUBSET Pool : \E user_id \in Users :
        GetNextSmtpConfigCall(smtp_config_ids, user_id)

SpecRotation == InitRotation /\ [][NextRotation]_vars

(* The accounts of the pool of the last call (the requested accounts of    *)
(* the caller) that are active and under their daily limit.                *)
Survivors ==
    {a \in call.smtp_config_ids :
        /\ smtp_configs[a].user_id = call.user_id
        /\ smtp_configs[a].is_active
        /\ smtp_configs[a].daily_sent_count < smtp_configs[a].daily_limit}

(* C12: get_next_smtp_config returns an active account under its limit     *)
(* that has the lowest daily_sent_count of all such accounts of the pool,  *)
(* the first of them in pool order on a tie, and returns none exactly when *)
(* no account of the pool is active and under its limit.                   *)
C12_LeastLoaded ==
    call.fn = "get_next_smtp_config" =>
        IF Survivors = {}
        THEN ret.value = NoConfig
        ELSE /\ ret.value \in Survivors
             /\ \A b \in Survivors :
                   \/ smtp_configs[ret.value].daily_sent_count
                        < smtp_configs[b].daily_sent_count
                   \/ /\ smtp_configs[ret.value].daily_sent_count
                           = smtp_configs[b].daily_sent_count
                      /\ ret.value <= b

(* A call whose result is not the first survivor of the pool: an earlier   *)
(* survivor has sent more, and another account of the pool is at its       *)
(* limit.                                                                  *)
C12_Witness ==
    /\ call.fn = "get_next_smtp_config"
    /\ ret.value # NoConfig
    /\ \E b \in Survivors :
          /\ b < ret.value
          /\ smtp_configs[b].daily_sent_count
                > smtp_configs[ret.value].daily_sent_count
    /\ \E c \in call.smtp_config_ids :
          smtp_configs[c].daily_sent_count >= smtp_configs[c].daily_limit

----
(* The variation selector on its own: select_campaign_variation is applied *)
(* to the steps of stored campaigns, in a server process that can be       *)
(* restarted and that draws from the same random module elsewhere.         *)

StepIndexes == 1..NumSteps

Weights == (0 - MaxNegWeight)..MaxWeight

(* CampaignVariation.weight is an int with no validator. *)
WeightLists ==
    UNION {[1..n -> Weights] : n \in 0..MaxVariations}

StepId(c, k) == (c - 1) * NumSteps + k

NoVariation == 0

(* hash() of the str f"{step.id}_{contact_id}": a value that depends on    *)
(* the string and on the salt the process drew when it started.            *)
StrHash(salt, step_id, contact_id) == salt + step_id * NumItems + contact_id

(* random.seed, random.randint and the generator's advance, on a generator *)
(* of RngSpace states.                                                     *)
Seed(h) == h % RngSpace

RandInt(state, a, b) == a + (state % (b - a + 1))

Advance(state) == (state + 1) % RngSpace

RECURSIVE CumulativeWeight(_, _)
CumulativeWeight(variations, k) ==
    IF k = 0 THEN 0
    ELSE CumulativeWeight(variations, k - 1) + variations[k].weight

ZeroWeightChoiceLast(variations) == Len(variations)

(* Line 665: the variation returned when the weights sum to 0. *)
ZeroWeightChoice(variations) == 1

EmptyListRaises(state) ==
    [outcome |-> "NoVariationsConfigured", value |-> NoVariation,
     rng |-> state]

(* Lines 655-656: the result for a step without variations. *)
EmptyListResult(state) ==
    [outcome |-> "return", value |-> NoVariation, rng |-> state]

(* select_campaign_variation: the outcome, the index of the variation      *)
(* returned and the generator state left behind.                           *)
SelectCampaignVariation(step, contact_id, salt, state) ==
    IF Len(step.variations) = 0
    THEN EmptyListResult(state)
    ELSE LET seeded == Seed(StrHash(salt, step.id, contact_id))
             total_weight ==
                 CumulativeWeight(step.variations, Len(step.variations))
         IN  IF total_weight = 0
             THEN [outcome |-> "return",
                   value |-> ZeroWeightChoice(step.variations),
                   rng |-> seeded]
             ELSE IF total_weight < 1
             THEN [outcome |-> "ValueError", value |-> NoVariation,
                   rng |-> seeded]
             ELSE LET rand_num == RandInt(seeded, 1, total_weight)
                      hits == {k \in 1..Len(step.variations) :
                                 rand_num
                                   <= CumulativeWeight(step.variations, k)}
                  IN  [outcome |-> "return",
                       value |-> IF hits = {}
                                 THEN Len(step.variations)
                                 ELSE CHOOSE k \in hits :
                                          \A j \in hits : k <= j,
                       rng |-> Advance(seeded)]

(* Campaign documents with their embedded steps; the steps of a run share  *)
(* one list of weights.                                                    *)
InitVariation ==
    /\ \E weights \in WeightLists :
          campaigns = [c \in Campaigns |->
              [user_id |-> OwnerOf(c), status |-> "draft", updated_at |-> 0,
               steps |-> [k \in StepIndexes |->
                   [id |-> StepId(c, k),
                    variations |-> [v \in 1..Len(weights) |->
                                        [weight |-> weights[v]]]]]]]
    /\ smtp_configs = AccountDocs(0, 1, [a \in Accounts |-> 0])
    /\ contacts = Items
    /\ email_queue = <<>>
    /\ InitWorker

(* One call of select_campaign_variation on a stored step. *)
SelectCampaignVariationCall(c, k, contact_id) ==
    LET step == campaigns[c].steps[k]
        result == SelectCampaignVariation(step, contact_id, hash_seed,
                                          rng_state)
    IN  /\ call' = [fn |-> "select_campaign_variation", step |-> step,
                    contact_id |-> contact_id]
        /\ ret' = [fn |-> "select_campaign_variation",
                   outcome |-> result.outcome, value |-> result.value]
        /\ rng_state' = result.rng
        /\ UNCHANGED <<now, campaigns, smtp_configs, queueVars, sendVars,
                       hash_seed,
                   requests>>

(* calculate_random_delay: another draw from the same generator. *)
CalculateRandomDelay ==
    /\ rng_state' = Advance(rng_state)
    /\ UNCHANGED <<now, campaigns, smtp_configs, queueVars, sendVars,
                   hash_seed, call, ret,
                   requests>>

(* The server process is started again: str hashing gets a new salt and    *)
(* the generator a new state.                                              *)
RestartServer(salt, state) ==
    /\ hash_seed' = salt
    /\ rng_state' = state
    /\ UNCHANGED <<now, campaigns, smtp_configs, queueVars, sendVars,
                   call, ret,
                   requests>>

NextVariation ==
    \/ \E c \in Campaigns : \E k \in StepIndexes : \E contact_id \in Items :
          SelectCampaignVariationCall(c, k, contact_id)
    \/ CalculateRandomDelay
    \/ \E salt \in 0..MaxSalt : \E state \in 0..(RngSpace - 1) :
          RestartServer(salt, state)

SpecVariation == InitVariation /\ [][NextVariation]_vars

Selected == call.fn = "select_campaign_variation"

(* C13: two calls of select_campaign_variation with the same step and the  *)
(* same contact_id return the same variation, whatever happened between    *)
(* them.                                                                   *)
C13_SameChoice == (Selected /\ call' = call) => ret' = ret

C13_Deterministic == [][C13_SameChoice]_vars

(* C14: for a step with a non-empty variation list whose weights sum to 0, *)
(* select_campaign_variation returns the first variation, for every        *)
(* contact_id.                                                             *)
C14_ZeroWeightFirst ==
    (/\ Selected
     /\ Len(call.step.variations) > 0
     /\ CumulativeWeight(call.step.variations,
                         Len(call.step.variations)) = 0)
        => (ret.outcome = "return" /\ ret.value = 1)

(* A call on a step of two variations whose weights are not 0 and sum to 0. *)
C14_Witness ==
    /\ Selected
    /\ Len(call.step.variations) = 2
    /\ call.step.variations[1].weight # 0
    /\ call.step.variations[1].weight + call.step.variations[2].weight = 0
    /\ ret.value = 1

(* C15 as stated: a call on a step with an empty variation list yields the *)
(* error NoVariationsConfigured rather than a normal result.               *)
C15_EmptyRaises ==
    (Selected /\ Len(call.step.variations) = 0)
        => ret.outcome = "NoVariationsConfigured"

(* C15, amended: a call on a step with an empty variation list returns     *)
(* normally, with no variation (None) as its result; no error is raised.   *)
C15_EmptyReturnsNone ==
    (Selected /\ Len(call.step.variations) = 0)
        => (ret.outcome = "return" /\ ret.value = NoVariation)

C15_Witness ==
    /\ Selected
    /\ Len(call.step.variations) = 0
    /\ ret.outcome = "return"
    /\ ret.value = NoVariation

----
(* Validation and start of a campaign: the endpoints validate_campaign and *)
(* start_campaign on stored campaigns.  A template is kept as what the     *)
(* validation reads of it: whether it is blank after strip() and the       *)
(* variables extract_variables_from_template finds in it.  Contact i and   *)
(* account a belong to user OwnerOf(i) and OwnerOf(a).                     *)

AvailableFields == {"first_name", "last_name", "email", "company", "phone"}

Defects == {"none", "blank subject", "blank content", "unknown variable"}

VariationDoc(defect) ==
    [weight |-> 50,
     subject_blank |-> (defect = "blank subject"),
     content_blank |-> (defect = "blank content"),
     variables |-> IF defect = "unknown variable"
                   THEN {"first_name", "nickname"} ELSE {"first_name"}]

CampaignDoc(c, nSteps, nVariations, defect, contact_ids, smtp_config_ids) ==
    [user_id |-> OwnerOf(c), status |-> "draft", updated_at |-> 0,
     steps |-> [k \in 1..nSteps |->
                  [id |-> StepId(c, k),
                   variations |-> [v \in 1..nVariations |->
                                       VariationDoc(defect)]]],
     contact_ids |-> contact_ids, smtp_config_ids |-> smtp_config_ids,
     custom_variables |-> {}]

InitStart ==
    /\ \E nSteps \in 0..NumSteps : \E nVariations \in 0..MaxVariations :
       \E defect \in Defects : \E contact_ids \in SUBSET Items :
       \E smtp_config_ids \in SUBSET Accounts :
          campaigns = [c \in Campaigns |->
              CampaignDoc(c, nSteps, nVariations, defect, contact_ids,
                          smtp_config_ids)]
    /\ \E nActive \in 0..NumAccounts :
          smtp_configs = AccountDocs(nActive, 1, [a \in Accounts |-> 0])
    /\ contacts = Items
    /\ email_queue = <<>>
    /\ InitWorker

(* validate_campaign_variables, lines 618-649. *)
MissingVariables(campaign, found) ==
    LET StepVariables(step) ==
            UNION {step.variations[v].variables :
                     v \in 1..Len(step.variations)}
        required_variables ==
            UNION {StepVariables(campaign.steps[k]) :
                     k \in 1..Len(campaign.steps)}
    IN  IF found = {} THEN {}
        ELSE {x \in required_variables :
                 x \notin AvailableFields /\ x \notin campaign.custom_variables}

(* validate_campaign, lines 1143-1168: the account and the setup checks. *)
SmtpIssues(campaign, user_id) ==
    LET smtp_count ==
            Cardinality({a \in campaign.smtp_config_ids \cap DOMAIN smtp_configs :
                            /\ smtp_configs[a].user_id = user_id
                            /\ smtp_configs[a].is_active})
    IN  IF campaign.smtp_config_ids = {}
        THEN {"No SMTP configurations selected"}
        ELSE IF smtp_count = 0
        THEN {"No active SMTP configurations found"}
        ELSE IF smtp_count < Cardinality(campaign.smtp_config_ids)
        THEN {"Some SMTP configurations are inactive or not found"}
        ELSE {}

SetupIssues(campaign) ==
    IF Len(campaign.steps) = 0
    THEN {"Campaign has no email steps configured"}
    ELSE UNION {
           (IF Len(campaign.steps[k].variations) = 0
            THEN {"Step has no email variations"} ELSE {})
           \cup
           UNION {(IF campaign.steps[k].variations[v].subject_blank
                   THEN {"Variation has no subject"} ELSE {})
                  \cup
                  (IF campaign.steps[k].variations[v].content_blank
                   THEN {"Variation has no content"} ELSE {}) :
                     v \in 1..Len(campaign.steps[k].variations)} :
              k \in 1..Len(campaign.steps)}

(* The contacts the query of lines 1133-1137 finds. *)
FoundContacts(campaign, user_id) ==
    {i \in campaign.contact_ids \cap contacts : OwnerOf(i) = user_id}

IsValid(campaign, user_id) ==
    /\ MissingVariables(campaign, FoundContacts(campaign, user_id)) = {}
    /\ SmtpIssues(campaign, user_id) = {}
    /\ SetupIssues(campaign) = {}

(* POST /campaigns/{id}/validate by user_id. *)
ValidateCampaign(c, user_id) ==
    /\ call' = [fn |-> "validate_campaign", campaign_id |-> c,
                user_id |-> user_id]
    /\ ret' = IF campaigns[c].user_id # user_id
              THEN [fn |-> "validate_campaign", outcome |-> "404"]
              ELSE [fn |-> "validate_campaign", outcome |-> "200",
                    is_valid |-> IsValid(campaigns[c], user_id)]
    /\ UNCHANGED <<now, campaigns, smtp_configs, queueVars, sendVars,
                   hash_seed, rng_state,
                   requests>>

(* POST /campaigns/{id}/start by user_id. *)
StartCampaign(c, user_id) ==
    /\ call' = [fn |-> "start_campaign", campaign_id |-> c,
                user_id |-> user_id]
    /\ IF campaigns[c].user_id # user_id
       THEN /\ ret' = [fn |-> "start_campaign", outcome |-> "404"]
            /\ UNCHANGED campaigns
       ELSE IF ~IsValid(campaigns[c], user_id)
       THEN /\ ret' = [fn |-> "start_campaign", outcome |-> "400"]
            /\ UNCHANGED campaigns
       ELSE /\ ret' = [fn |-> "start_campaign", outcome |-> "200"]
            /\ campaigns' = [campaigns EXCEPT ![c].status = "sending",
                                              ![c].updated_at = now]
    /\ UNCHANGED <<now, smtp_configs, queueVars, sendVars, hash_seed,
                   rng_state,
                   requests>>

NextStart ==
    \E c \in Campaigns : \E user_id \in Users :
        \/ ValidateCampaign(c, user_id)
        \/ StartCampaign(c, user_id)

SpecStart == InitStart /\ [][NextStart]_vars

(* What the scheduler's validation asks of a campaign: a step with a       *)
(* variation, a contact, and an active sending account.                    *)
Complete(campaign) ==
    /\ \E k \in 1..Len(campaign.steps) : Len(campaign.steps[k].variations) > 0
    /\ campaign.contact_ids # {}
    /\ \E a \in campaign.smtp_config_ids : smtp_configs[a].is_active

(* C16: start_campaign succeeds only for a campaign with at least one step *)
(* that has a variation, at least one contact and at least one active      *)
(* sending account; any other campaign keeps the status it had.            *)
C16_StartOnlyIfComplete ==
    /\ (call.fn = "start_campaign" /\ ret.outcome = "200")
          => Complete(campaigns[call.campaign_id])
    /\ \A c \in Campaigns :
          ~Complete(campaigns[c]) => campaigns[c].status = "draft"

----
(* CampaignSender.schedule_campaign on stored campaign documents.  The     *)
(* store has no schema: a document may or may not carry the keys           *)
(* schedule_campaign reads (subject, content, daily_limit,                 *)
(* delay_between_emails); the documents create_campaign writes carry none  *)
(* of them.                                                                *)

(* A key of a document: the empty set when the document lacks it, the set *)
(* of its value when it has it; dict.get(key, default).                    *)
Absent == {}

Get(value, default) ==
    IF value = Absent THEN default ELSE CHOOSE v \in value : TRUE

SchedContacts == 1..NumSchedContacts

(* Line 377-378: the next day at 09:00. *)
NextDayNine(t) == ((t \div DaySeconds) + 1) * DaySeconds + NineAM

(* Lines 372-398: current_time and scheduled_count after the k-th contact  *)
(* of the loop, and the send_time given to it.                             *)
RECURSIVE LoopState(_, _, _, _)
LoopState(k, start, daily_limit, delay_between_emails) ==
    IF k = 0
    THEN [current_time |-> start, scheduled_count |-> 0, send_time |-> NoTime]
    ELSE LET before == LoopState(k - 1, start, daily_limit,
                                 delay_between_emails)
             rolled == before.scheduled_count >= daily_limit
             base == IF rolled THEN NextDayNine(before.current_time)
                     ELSE before.current_time
             count == IF rolled THEN 0 ELSE before.scheduled_count
         IN  [current_time |-> base, scheduled_count |-> count + 1,
              send_time |-> base + delay_between_emails * count]

(* The contacts the query of line 366 finds, in the order of the store. *)
ScheduledContacts(campaign) ==
    SelectSeq([i \in SchedContacts |-> i],
              LAMBDA i: i \in campaign.contact_ids /\ i \in contacts)

InitSchedule ==
    /\ now \in {0, LateStart}
    /\ \E nSteps \in 1..NumSteps : \E n \in 0..NumSchedContacts :
       \E has_templates \in BOOLEAN :
       \E daily_limit \in {Absent} \cup {{cap} : cap \in 1..MaxCap} :
       \E delay_between_emails \in {Absent, {0}} :
          campaigns = [c \in Campaigns |->
              [user_id |-> OwnerOf(c), status |-> "draft", updated_at |-> 0,
               steps |-> [k \in 1..nSteps |->
                            [id |-> StepId(c, k), variations |-> <<>>]],
               contact_ids |-> 1..n, has_templates |-> has_templates,
               daily_limit |-> daily_limit,
               delay_between_emails |-> delay_between_emails]]
    /\ smtp_configs = AccountDocs(NumAccounts, 1, [a \in Accounts |-> 0])
    /\ contacts \in {SchedContacts, SchedContacts \ {1}}
    /\ email_queue = <<>>
    /\ InitProcesses

(* The queue items one run of the loop of lines 374-398 inserts. *)
ScheduledItems(c, campaign) ==
    LET found == ScheduledContacts(campaign)
    IN  [k \in 1..Len(found) |->
            NewQueueItem(Len(email_queue) + k, c, found[k],
                LoopState(k, now,
                          Get(campaign.daily_limit, DefaultDailyLimit),
                          Get(campaign.delay_between_emails,
                              DefaultDelay)).send_time)]

Rejected(error) ==
    [fn |-> "schedule_campaign", success |-> FALSE, error |-> error]

(* schedule_campaign(campaign_id); the queue of a run holds at most        *)
(* MaxQueued items.                                                        *)
ScheduleCampaign(c) ==
    /\ Len(email_queue) + NumSchedContacts <= MaxQueued
    /\ call' = [fn |-> "schedule_campaign", campaign_id |-> c]
    /\ IF c \notin Campaigns
       THEN /\ ret' = Rejected("Campaign not found")
            /\ UNCHANGED <<email_queue, campaigns>>
       ELSE IF campaigns[c].contact_ids = {}
       THEN /\ ret' = Rejected("No contacts selected")
            /\ UNCHANGED <<email_queue, campaigns>>
       ELSE IF /\ Len(ScheduledContacts(campaigns[c])) > 0
               /\ ~campaigns[c].has_templates
       THEN /\ ret' = Rejected("'subject'")
            /\ UNCHANGED <<email_queue, campaigns>>
       ELSE /\ email_queue' = email_queue \o ScheduledItems(c, campaigns[c])
            /\ campaigns' = [campaigns EXCEPT ![c].status = "scheduled",
                                              ![c].updated_at = now]
            /\ ret' = [fn |-> "schedule_campaign", success |-> TRUE,
                       emails_scheduled |->
                           Len(ScheduledContacts(campaigns[c]))]
    /\ UNCHANGED <<now, contacts, smtp_configs, providers,
                   last_provider_index, is_processing, pc, current_time,
                   pending_emails, cursor, chosen, outbox, outbox_mark,
                   sendVars, hash_seed, rng_state,
                   requests>>

NextSchedule == \E c \in 1..(NumCampaigns + 1) : ScheduleCampaign(c)

SpecSchedule == InitSchedule /\ [][NextSchedule]_vars

(* The items a step appended to the queue. *)
Added == SubSeq(email_queue', Len(email_queue) + 1, Len(email_queue'))

(* C17: a successful schedule_campaign persists exactly one queue item per *)
(* (contact, step) of the campaign, each pending with attempts 0, and sets *)
(* the campaign's status to scheduled; a rejected request creates no queue *)
(* item and leaves the campaign's status as it was.                        *)
C17_Scheduled ==
    (call'.fn = "schedule_campaign" /\ vars' # vars) =>
        IF ret'.success
        THEN LET c == call'.campaign_id
             IN  /\ \A i \in campaigns[c].contact_ids :
                       Cardinality({k \in 1..Len(Added) :
                                       Added[k].contact_id = i})
                          = Len(campaigns[c].steps)
                 /\ \A k \in 1..Len(Added) :
                       /\ Added[k].campaign_id = c
                       /\ Added[k].contact_id \in campaigns[c].contact_ids
                       /\ Added[k].status = "pending"
                       /\ Added[k].attempts = 0
                 /\ campaigns'[c].status = "scheduled"
        ELSE UNCHANGED <<email_queue, campaigns>>

C17_OnePerContactStep == [][C17_Scheduled]_vars

(* C18: the scheduled_at values one schedule_campaign produces place at    *)
(* most the campaign's daily cap of queue items on any single UTC day.     *)
C18_Capped ==
    (call'.fn = "schedule_campaign" /\ ret'.success) =>
        \A k \in 1..Len(Added) :
            Cardinality({j \in 1..Len(Added) :
                            Added[j].scheduled_at \div DaySeconds
                              = Added[k].scheduled_at \div DaySeconds})
               <= Get(campaigns[call'.campaign_id].daily_limit,
                      DefaultDailyLimit)

C18_DailyCap == [][C18_Capped]_vars

----
(* personalize_template on templates, contacts and custom variables.  A    *)
(* string is a sequence of symbols: the braces, the blank, the newline and *)
(* words, which hold no brace and no whitespace.                           *)

Whitespace == {" ", "\n"}

(* str.lower on a symbol and on a string. *)
LowerSymbol(x) ==
    CASE x = "Company" -> "company"
      [] x = "Nickname" -> "nickname"
      [] x = "Hi" -> "hi"
      [] OTHER -> x

Lower(str) == [k \in 1..Len(str) |-> LowerSymbol(str[k])]

Token(name) == <<"{", "{">> \o name \o <<"}", "}">>

(* The pieces templates are put together from. *)
Pieces ==
    {<<"Hi">>, <<" ">>, <<"\n">>, <<"{">>, <<"}">>,
     Token(<<"company">>), Token(<<"Company">>),
     Token(<<" ", "company", " ">>),
     Token(<<"nickname">>), Token(<<"Nickname">>)}

RECURSIVE TemplatesOf(_)
TemplatesOf(n) ==
    IF n = 0 THEN {<<>>}
    ELSE TemplatesOf(n - 1)
            \cup {t \o piece : t \in TemplatesOf(n - 1), piece \in Pieces}

Templates == TemplatesOf(MaxPieces)

(* str.strip. *)
RECURSIVE Strip(_)
Strip(str) ==
    IF Len(str) = 0 THEN str
    ELSE IF str[1] \in Whitespace THEN Strip(Tail(str))
    ELSE IF str[Len(str)] \in Whitespace
    THEN Strip(SubSeq(str, 1, Len(str) - 1))
    ELSE str

(* Contact documents: company is a string, or missing or None. *)
ContactDocs ==
    {[first_name |-> {<<"Ana">>}, last_name |-> {<<"Lee">>},
      email |-> {<<"ana@x.io">>}, company |-> company, phone |-> Absent] :
        company \in {Absent, {<<"Acme">>}}}

(* custom_variables: None, or a dict from names to values. *)
NoDict == <<>>

CustomDicts ==
    {NoDict, <<"company">> :> <<"Inc">>, <<"nickname">> :> <<"Al">>}

(* Lines 586-597: the dict of variables. *)
Variables(contact, custom_variables) ==
    LET standard ==
            (<<"first_name">> :> Get(contact.first_name, <<>>))
            @@ (<<"last_name">> :> Get(contact.last_name, <<>>))
            @@ (<<"full_name">> :>
                    Strip(Get(contact.first_name, <<>>) \o <<" ">>
                            \o Get(contact.last_name, <<>>)))
            @@ (<<"email">> :> Get(contact.email, <<>>))
            @@ (<<"company">> :> Get(contact.company, <<>>))
            @@ (<<"phone">> :> Get(contact.phone, <<>>))
    IN  IF custom_variables = NoDict THEN standard
        ELSE custom_variables @@ standard

(* The pattern \{\{([^}]+)\}\} at position i of str: the position of the   *)
(* first closing brace of the match, or 0 when there is no match at i.     *)
MatchClose(str, i) ==
    LET closes == {j \in (i + 2)..Len(str) : str[j] = "}"}
        first == IF closes = {} THEN 0
                 ELSE CHOOSE j \in closes : \A k \in closes : j <= k
    IN  IF /\ i + 1 <= Len(str)
           /\ str[i] = "{"
           /\ str[i + 1] = "{"
           /\ first >= i + 3
           /\ first + 1 <= Len(str)
           /\ str[first + 1] = "}"
        THEN first ELSE 0

(* Line 602: the name put back between braces when the dict lacks it. *)
Reemit(name) == Lower(name)

(* Lines 600-605: re.sub with replace_variable, from position i on. *)
RECURSIVE ReplaceVariables(_, _, _)
ReplaceVariables(str, i, variables) ==
    IF i > Len(str) THEN <<>>
    ELSE IF MatchClose(str, i) = 0
    THEN <<str[i]>> \o ReplaceVariables(str, i + 1, variables)
    ELSE LET close == MatchClose(str, i)
             name == SubSeq(str, i + 2, close - 1)
             var_name == Lower(name)
         IN  (IF var_name \in DOMAIN variables
              THEN variables[var_name]
              ELSE Token(Reemit(name)))
             \o ReplaceVariables(str, close + 2, variables)

(* Line 608: re.sub(r'\s+', ' ', ...). *)
RECURSIVE CollapseWhitespace(_)
CollapseWhitespace(str) ==
    IF Len(str) = 0 THEN str
    ELSE IF str[1] \in Whitespace
    THEN IF Len(str) > 1 /\ str[2] \in Whitespace
         THEN CollapseWhitespace(Tail(str))
         ELSE <<" ">> \o CollapseWhitespace(Tail(str))
    ELSE <<str[1]>> \o CollapseWhitespace(Tail(str))

PersonalizeTemplate(template, contact, custom_variables) ==
    CollapseWhitespace(
        ReplaceVariables(template, 1, Variables(contact, custom_variables)))

InitTemplate ==
    /\ smtp_configs = AccountDocs(0, 1, [a \in Accounts |-> 0])
    /\ InitCampaigns
    /\ contacts = {}
    /\ email_queue = <<>>
    /\ InitWorker

(* The call of personalize_template of a run and its result. *)
PersonalizeTemplateCall(template, contact, custom_variables) ==
    /\ call = NoCall
    /\ call' = [fn |-> "personalize_template", template |-> template,
                contact |-> contact, custom_variables |-> custom_variables]
    /\ ret' = [fn |-> "personalize_template",
               value |-> PersonalizeTemplate(template, contact,
                                             custom_variables)]
    /\ UNCHANGED <<now, campaigns, smtp_configs, queueVars, sendVars,
                   hash_seed, rng_state,
                   requests>>

NextTemplate ==
    \E template \in Templates : \E contact \in ContactDocs :
    \E custom_variables \in CustomDicts :
        PersonalizeTemplateCall(template, contact, custom_variables)

SpecTemplate == InitTemplate /\ [][NextTemplate]_vars

Personalized == call.fn = "personalize_template"

(* The names of the tokens of a string, from position i on. *)
RECURSIVE TokenNames(_, _)
TokenNames(str, i) ==
    IF i > Len(str) THEN <<>>
    ELSE IF MatchClose(str, i) = 0 THEN TokenNames(str, i + 1)
    ELSE <<SubSeq(str, i + 2, MatchClose(str, i) - 1)>>
            \o TokenNames(str, MatchClose(str, i) + 2)

(* The variables of the last call. *)
CallVariables == Variables(call.contact, call.custom_variables)

(* C19: personalize_template replaces every token whose trimmed,           *)
(* lower-cased name is a standard field or a key of the custom variables:  *)
(* no such token is left in the result, and a template that is one such    *)
(* token renders as the value of the name (the custom value first, then    *)
(* the contact's, then the empty string).                                  *)
C19_TokensReplaced ==
    Personalized =>
        /\ \A k \in 1..Len(TokenNames(ret.value, 1)) :
              Strip(Lower(TokenNames(ret.value, 1)[k]))
                 \notin DOMAIN CallVariables
        /\ \A name \in DOMAIN CallVariables :
           \A written \in {<<"company">>, <<"Company">>,
                           <<" ", "company", " ">>} :
              (call.template = Token(written) /\ Strip(Lower(written)) = name)
                 => ret.value = CallVariables[name]

(* The template with the tokens the dict resolves replaced and every other *)
(* symbol kept.                                                            *)
RECURSIVE ResolvedOnly(_, _, _)
ResolvedOnly(str, i, variables) ==
    IF i > Len(str) THEN <<>>
    ELSE IF MatchClose(str, i) = 0
    THEN <<str[i]>> \o ResolvedOnly(str, i + 1, variables)
    ELSE LET close == MatchClose(str, i)
             name == SubSeq(str, i + 2, close - 1)
         IN  (IF Lower(name) \in DOMAIN variables
              THEN variables[Lower(name)]
              ELSE SubSeq(str, i, close + 1))
             \o ResolvedOnly(str, close + 2, variables)

(* C20: personalize_template leaves every token whose name is neither a    *)
(* standard field nor a custom variable exactly as written, and changes no *)
(* text outside the tokens it resolves.                                    *)
C20_RestVerbatim ==
    Personalized => ret.value = ResolvedOnly(call.template, 1, CallVariables)

----
(* extract_variables_from_template, and the round trip of a template       *)
(* through it and personalize_template: the names found are all supplied   *)
(* as custom variables.                                                    *)

(* Lines 615-616: re.findall, then strip().lower() and de-duplication. *)
ExtractVariablesFromTemplate(template) ==
    LET names == TokenNames(template, 1)
    IN  {Lower(Strip(names[k])) : k \in 1..Len(names)}

ExtractVariablesCall(template) ==
    /\ call = NoCall
    /\ call' = [fn |-> "extract_variables_from_template",
                template |-> template]
    /\ ret' = [fn |-> "extract_variables_from_template",
               value |-> ExtractVariablesFromTemplate(template)]
    /\ UNCHANGED <<now, campaigns, smtp_configs, queueVars, sendVars,
                   hash_seed, rng_state,
                   requests>>

(* The template of the extract call is rendered with a value for every     *)
(* name that call returned.                                                *)
PersonalizeExtracted(contact) ==
    /\ call.fn = "extract_variables_from_template"
    /\ LET custom_variables == [name \in ret.value |-> <<"Al">>]
       IN  /\ call' = [fn |-> "personalize_template",
                       template |-> call.template, contact |-> contact,
                       custom_variables |-> custom_variables]
           /\ ret' = [fn |-> "personalize_template",
                      value |-> PersonalizeTemplate(call.template, contact,
                                                    custom_variables)]
    /\ UNCHANGED <<now, campaigns, smtp_configs, queueVars, sendVars,
                   hash_seed, rng_state,
                   requests>>

NextRoundTrip ==
    \/ \E template \in Templates : ExtractVariablesCall(template)
    \/ \E contact \in ContactDocs : PersonalizeExtracted(contact)

SpecRoundTrip == InitTemplate /\ [][NextRoundTrip]_vars

(* C21: a template rendered with a value supplied for every name that      *)
(* extract_variables_from_template returned for it holds no {{...}} token. *)
C21_NoTokenLeft ==
    Personalized => TokenNames(ret.value, 1) = <<>>

----
(* The worker next to DELETE /campaigns/{id}. *)

(* delete_campaign by user_id: the campaign document is removed when it is *)
(* the caller's, and the request answers 404 otherwise.                    *)
DeleteCampaign(c, user_id) ==
    /\ campaigns' =
          IF c \in DOMAIN campaigns /\ campaigns[c].user_id = user_id
          THEN [d \in DOMAIN campaigns \ {c} |-> campaigns[d]]
          ELSE campaigns
    /\ UNCHANGED <<now, smtp_configs, queueVars, sendVars, helperVars>>

NextDelete ==
    \/ Worker
    \/ Tick
    \/ \E c \in Campaigns : \E user_id \in Users : DeleteCampaign(c, user_id)

SpecDelete == Init /\ [][NextDelete]_vars

(* C22: no stored queue item references a campaign that was deleted, and   *)
(* no message of a deleted campaign's item is handed to the transport.     *)
C22_Stored ==
    \A i \in 1..Len(email_queue) :
        email_queue[i].campaign_id \in DOMAIN campaigns

C22_NotSent ==
    \A p \in Passes :
        (pc[p] = "transport" /\ Len(outbox') > Len(outbox)) =>
            CurrentItem(p).campaign_id \in DOMAIN campaigns

C22_Cascade == [] C22_Stored /\ [][C22_NotSent]_vars

----
(* The contact and campaign endpoints of the API: create_contact,          *)
(* upload_contacts_csv and create_campaign, served NumRequests at a time.  *)
(* A step is one operation on the store, with the code that follows it up  *)
(* to the next await.  Every user is on one plan, whose limits are         *)
(* ContactsLimit and CampaignsLimit; the rows of an uploaded file all have *)
(* an email and a first name.  db.contacts is kept as the number of        *)
(* documents of each user with each email.                                 *)

Emails == 1..NumEmails

RowLists == [1..MaxRows -> Emails]

ApiRequests ==
    {[fn |-> "create_contact", user_id |-> u, email |-> e] :
        u \in Users, e \in Emails}
    \cup {[fn |-> "upload_contacts_csv", user_id |-> u, rows |-> rows] :
            u \in Users, rows \in RowLists}
    \cup {[fn |-> "create_campaign", user_id |-> u] : u \in Users}

RECURSIVE SumOver(_, _)
SumOver(f, S) ==
    IF S = {} THEN 0
    ELSE LET x == CHOOSE x \in S : TRUE IN f[x] + SumOver(f, S \ {x})

(* db.contacts.count_documents({"user_id": ...}). *)
CountContacts(user_id) == SumOver(contacts, {user_id} \X Emails)

(* db.contacts.find_one({"email": ..., "user_id": ...}) finds a document. *)
ExistingContact(user_id, email) == contacts[<<user_id, email>>] > 0

InsertContact(user_id, email) ==
    [contacts EXCEPT ![<<user_id, email>>] = @ + 1]

(* db.campaigns.count_documents({"user_id": ...}). *)
CountCampaigns(user_id) ==
    Cardinality({c \in DOMAIN campaigns : campaigns[c].user_id = user_id})

(* check_subscription_limits raises 403. *)
LimitReached(resource_type, current_count) ==
    \/ resource_type = "contacts" /\ current_count >= ContactsLimit
    \/ resource_type = "campaigns" /\ current_count >= CampaignsLimit

apiFrame ==
    <<now, smtp_configs, email_queue, providers, last_provider_index,
      is_processing, pc, current_time, pending_emails, cursor, chosen,
      outbox, outbox_mark, sendVars, hash_seed, rng_state, call, ret>>

(* A request arrives: get_current_user looks the caller up, lines 405-423, *)
(* and upload_contacts_csv reads its file, lines 958-968.                  *)
ReceiveRequest(r, request) ==
    /\ requests[r] = NoRequest
    /\ requests' = [requests EXCEPT ![r] =
          [pc |-> "count", request |-> request, row |-> 1,
           contacts_created |-> 0]]
    /\ UNCHANGED <<contacts, campaigns, apiFrame>>

(* The response is returned. *)
Respond(r) == requests' = [requests EXCEPT ![r] = NoRequest]

Serving(r, fn, at) ==
    /\ requests[r].pc = at
    /\ requests[r].request.fn = fn

(* create_contact, lines 912-914: the count and the limit check. *)
CreateContactCount(r) ==
    /\ Serving(r, "create_contact", "count")
    /\ IF LimitReached("contacts", CountContacts(requests[r].request.user_id))
       THEN Respond(r)
       ELSE requests' = [requests EXCEPT ![r].pc = "find"]
    /\ UNCHANGED <<contacts, campaigns, apiFrame>>

(* Lines 917-919: the look-up of the email. *)
CreateContactFind(r) ==
    /\ Serving(r, "create_contact", "find")
    /\ IF ExistingContact(requests[r].request.user_id,
                          requests[r].request.email)
       THEN Respond(r)
       ELSE requests' = [requests EXCEPT ![r].pc = "insert"]
    /\ UNCHANGED <<contacts, campaigns, apiFrame>>

(* Lines 921-925: the insert. *)
CreateContactInsert(r) ==
    /\ Serving(r, "create_contact", "insert")
    /\ contacts' = InsertContact(requests[r].request.user_id,
                                 requests[r].request.email)
    /\ Respond(r)
    /\ UNCHANGED <<campaigns, apiFrame>>

(* The loop of upload_contacts_csv goes to the row after the current one,  *)
(* or the response is returned after the last.                             *)
NextRow(r, contacts_created) ==
    IF requests[r].row = Len(requests[r].request.rows)
    THEN Respond(r)
    ELSE requests' = [requests EXCEPT
                         ![r].pc = "count",
                         ![r].row = requests[r].row + 1,
                         ![r].contacts_created = contacts_created]

(* Lines 973-974 and 1003-1006: the count of a row, the limit check on     *)
(* current_count + contacts_created, and the break.                        *)
UploadCount(r) ==
    /\ Serving(r, "upload_contacts_csv", "count")
    /\ IF LimitReached("contacts",
                       CountContacts(requests[r].request.user_id)
                         + requests[r].contacts_created)
       THEN Respond(r)
       ELSE requests' = [requests EXCEPT ![r].pc = "find"]
    /\ UNCHANGED <<contacts, campaigns, apiFrame>>

(* Lines 989-996 of the loop: the look-up of the row's email; a row      *)
(* whose email exists is skipped.                                          *)
UploadFind(r) ==
    /\ Serving(r, "upload_contacts_csv", "find")
    /\ IF ExistingContact(requests[r].request.user_id,
                          requests[r].request.rows[requests[r].row])
       THEN NextRow(r, requests[r].contacts_created)
       ELSE requests' = [requests EXCEPT ![r].pc = "insert"]
    /\ UNCHANGED <<contacts, campaigns, apiFrame>>

(* The insert of the row. *)
UploadInsert(r) ==
    /\ Serving(r, "upload_contacts_csv", "insert")
    /\ contacts' = InsertContact(requests[r].request.user_id,
                                 requests[r].request.rows[requests[r].row])
    /\ NextRow(r, requests[r].contacts_created + 1)
    /\ UNCHANGED <<campaigns, apiFrame>>

(* create_campaign, lines 1024-1025, for a request that names no SMTP      *)
(* configuration.                                                          *)
CreateCampaignCount(r) ==
    /\ Serving(r, "create_campaign", "count")
    /\ IF LimitReached("campaigns",
                       CountCampaigns(requests[r].request.user_id))
       THEN Respond(r)
       ELSE requests' = [requests EXCEPT ![r].pc = "insert"]
    /\ UNCHANGED <<contacts, campaigns, apiFrame>>

(* Lines 1036-1040. *)
CreateCampaignInsert(r) ==
    /\ Serving(r, "create_campaign", "insert")
    /\ campaigns' = Append(campaigns,
          [user_id |-> requests[r].request.user_id, status |-> "draft",
           updated_at |-> now])
    /\ Respond(r)
    /\ UNCHANGED <<contacts, apiFrame>>

InitApi ==
    /\ smtp_configs = AccountDocs(0, 1, [a \in Accounts |-> 0])
    /\ campaigns = <<>>
    /\ contacts = [k \in Users \X Emails |-> 0]
    /\ email_queue = <<>>
    /\ InitWorker

NextApi ==
    \E r \in Requests :
        \/ \E request \in ApiRequests : ReceiveRequest(r, request)
        \/ CreateContactCount(r)
        \/ CreateContactFind(r)
        \/ CreateContactInsert(r)
        \/ UploadCount(r)
        \/ UploadFind(r)
        \/ UploadInsert(r)
        \/ CreateCampaignCount(r)
        \/ CreateCampaignInsert(r)

SpecApi == InitApi /\ [][NextApi]_vars

(* C23: no user has two contacts with the same email, also when requests   *)
(* of one user for one email are served at the same time.                  *)
C23_UniqueEmail == \A k \in Users \X Emails : contacts[k] <= 1

(* C24: no user has more contacts or campaigns than the plan allows, and   *)
(* a request is rejected for the limit only when the user's count is at    *)
(* the limit; a rejected request stores nothing.                           *)
C24_Within ==
    \A u \in Users :
        /\ CountContacts(u) <= ContactsLimit
        /\ CountCampaigns(u) <= CampaignsLimit

C24_Rejection ==
    \A r \in Requests :
        (requests[r].pc = "count" /\ requests'[r] = NoRequest) =>
            /\ UNCHANGED <<contacts, campaigns>>
            /\ IF requests[r].request.fn = "create_campaign"
               THEN CountCampaigns(requests[r].request.user_id)
                       >= CampaignsLimit
               ELSE CountContacts(requests[r].request.user_id)
                       >= ContactsLimit

C24_PlanLimits == [] C24_Within /\ [][C24_Rejection]_vars

(***************************************************************************)
(* The SMTP connection test of the API server: test_smtp_connection and    *)
(* the endpoint test_smtp_config (backend/server.py).                      *)
(*                                                                         *)
(* test_smtp_connection reads nothing of a failure but str(e), and of that *)
(* only whether it contains certain phrases.  An error message is modelled *)
(* by the set of those phrases it contains; "authentication" stands for an *)
(* occurrence in any case (the code lower-cases the message for it).  The  *)
(* kind of a failure is what went wrong at the transport; the code never   *)
(* sees it.  Accounts under test have a host.                              *)
(***************************************************************************)
Phrases ==
    {"534", "Application-specific password", "535",
     "Username and Password not accepted", "authentication",
     "Error connecting", "Name or service not known", "Connection refused",
     "Connection timed out", "SSL", "TLS", "Unexpected EOF received"}

FailureKinds == {"authentication", "connection", "tls", "other"}

Hosts == {"smtp.gmail.com", "smtp.example.com"}

Delivered == [kind |-> "delivered", error_message |-> {}]

Failures == [kind : FailureKinds, error_message : SUBSET Phrases]

GmailGuidance == "Gmail requires an App Password."

AuthGuidance == "Authentication failed. Please check your username and password."

ConnectGuidance == "Cannot connect to SMTP server."

TlsGuidance == "SSL/TLS connection error."

(* Line 539: the message is this prefix followed by str(e). *)
UnknownPrefix == "SMTP test failed: "

IsGmailHost(smtp_host) == smtp_host = "smtp.gmail.com"

TestSmtpConnection(smtp_config, outcome) ==
    LET error_message == outcome.error_message
    IN  IF outcome = Delivered
        THEN [success |-> TRUE, message |-> "Test email sent successfully",
              error_type |-> "none"]
        ELSE IF /\ "534" \in error_message
                /\ "Application-specific password" \in error_message
        THEN [success |-> FALSE, message |-> GmailGuidance,
              error_type |-> "gmail_app_password_required"]
        ELSE IF /\ "535" \in error_message
                /\ \/ "Username and Password not accepted" \in error_message
                   \/ "authentication" \in error_message
        THEN IF IsGmailHost(smtp_config.smtp_host)
             THEN [success |-> FALSE, message |-> GmailGuidance,
                   error_type |-> "gmail_app_password_required"]
             ELSE [success |-> FALSE, message |-> AuthGuidance,
                   error_type |-> "authentication_failed"]
        ELSE IF /\ "Error connecting" \in error_message
                /\ \/ "Name or service not known" \in error_message
                   \/ "Connection refused" \in error_message
                   \/ "Connection timed out" \in error_message
        THEN [success |-> FALSE, message |-> ConnectGuidance,
              error_type |-> "connection_failed"]
        ELSE IF \/ "SSL" \in error_message
                \/ "TLS" \in error_message
                \/ "Unexpected EOF received" \in error_message
        THEN [success |-> FALSE, message |-> TlsGuidance,
              error_type |-> "ssl_tls_error"]
        ELSE [success |-> FALSE, message |-> UnknownPrefix,
              error_type |-> "unknown_error"]

(* test_smtp_config up to the return of test_smtp_connection. *)
TestSmtpConfigCall(config_id, outcome) ==
    /\ call = NoCall
    /\ call' = [fn |-> "test_smtp_connection", config_id |-> config_id,
                outcome |-> outcome]
    /\ ret' = [fn |-> "test_smtp_connection",
               value |-> TestSmtpConnection(smtp_configs[config_id],
                                            outcome)]
    /\ UNCHANGED <<now, campaigns, smtp_configs, queueVars, sendVars,
                   hash_seed, rng_state, requests>>

(* test_smtp_config, lines 877-889: the update of the account and the      *)
(* return of the result.                                                   *)
TestSmtpConfigUpdate ==
    /\ call.fn = "test_smtp_connection"
    /\ smtp_configs' = [smtp_configs EXCEPT
                           ![call.config_id].is_verified = ret.value.success]
    /\ call' = [call EXCEPT !.fn = "test_smtp_config"]
    /\ UNCHANGED <<now, campaigns, queueVars, sendVars, hash_seed,
                   rng_state, requests, ret>>

InitConnectionTest ==
    /\ \E is_verified \in BOOLEAN :
          smtp_configs =
              [a \in Accounts |->
                  [user_id |-> OwnerOf(a), is_active |-> FALSE,
                   daily_limit |-> 1, daily_sent_count |-> 0,
                   smtp_host |-> IF a = 1 THEN "smtp.gmail.com"
                                          ELSE "smtp.example.com",
                   is_verified |-> is_verified]]
    /\ InitCampaigns
    /\ contacts = {}
    /\ email_queue = <<>>
    /\ InitWorker

NextConnectionTest ==
    \/ /\ call = NoCall
       /\ \E config_id \in Accounts :
             \E outcome \in Failures \cup {Delivered} :
                TestSmtpConfigCall(config_id, outcome)
    \/ TestSmtpConfigUpdate

SpecConnectionTest == InitConnectionTest /\ [][NextConnectionTest]_vars

ErrorTypes ==
    {"gmail_app_password_required", "authentication_failed",
     "connection_failed", "ssl_tls_error", "unknown_error"}

Tested == call.fn \in {"test_smtp_connection", "test_smtp_config"}

(* C25: a failed connection test returns success = false, a message and    *)
(* one of the five error types: an authentication rejection an             *)
(* authentication type, with the Gmail guidance when the host is Gmail,    *)
(* an unreachable host connection_failed, a TLS/SSL failure ssl_tls_error; *)
(* the endpoint stores the test's success as the account's is_verified.    *)
C25_Classified ==
    /\ (Tested /\ call.outcome # Delivered) =>
          /\ ret.value.success = FALSE
          /\ ret.value.message # ""
          /\ ret.value.error_type \in ErrorTypes
          /\ call.outcome.kind = "authentication" =>
                /\ ret.value.error_type \in
                      {"gmail_app_password_required",
                       "authentication_failed"}
                /\ IsGmailHost(smtp_configs[call.config_id].smtp_host) =>
                      ret.value.message = GmailGuidance
          /\ call.outcome.kind = "connection" =>
                ret.value.error_type = "connection_failed"
          /\ call.outcome.kind = "tls" =>
                ret.value.error_type = "ssl_tls_error"
    /\ call.fn = "test_smtp_config" =>
          smtp_configs[call.config_id].is_verified = ret.value.success

(* C30: every message the transport accepted for a queue item went through *)
(* an account of the user who owns the item's campaign.                    *)
C30_OwnAccount ==
    \A k \in 1..Len(outbox) :
        smtp_configs[outbox[k].account].user_id
            = campaigns[Stored(outbox[k].email_id).campaign_id].user_id

(***************************************************************************)
(* The worker on a store whose operations may raise.                       *)
(*                                                                         *)
(* process_queue has one try around the query and the whole for loop, an   *)
(* except that logs, and a finally that clears the flag (lines 248-268).   *)
(* _send_queued_email has one try around its body, and its except calls    *)
(* _retry_or_fail_email (lines 302-304), which is itself a store update    *)
(* and is not guarded: an exception of it reaches process_queue's except.  *)
(* The providers catch their own exceptions and return a failure.          *)
(***************************************************************************)
MaxOutbox == 2

StoreError == "Store error"

(* The finally clause as it would be were the flag left alone. *)
FinallySkipped(flag) == flag

(* process_queue, lines 267-268: is_processing after the finally clause. *)
Finally(flag) == FALSE

(* The for loop is left through process_queue's except and finally. *)
CycleAborted(p) ==
    /\ is_processing' = Finally(is_processing)
    /\ pending_emails' = [pending_emails EXCEPT ![p] = <<>>]
    /\ cursor' = [cursor EXCEPT ![p] = 0]
    /\ current_time' = [current_time EXCEPT ![p] = NoTime]
    /\ chosen' = [chosen EXCEPT ![p] = NoProvider]
    /\ pc' = [pc EXCEPT ![p] = "idle"]

(* process_queue, lines 252-256: the find raises. *)
QueryRaises(p) ==
    /\ pc[p] = "query"
    /\ CycleAborted(p)
    /\ UNCHANGED <<now, email_queue, contacts, campaigns, smtp_configs,
                   providers, last_provider_index, outbox, outbox_mark,
                   sendVars, helperVars>>

(* _send_queued_email, line 274: the contact lookup raises, and the except *)
(* records a retry or the failure.                                         *)
ContactLookupRaises(p) ==
    /\ pc[p] = "contact"
    /\ email_queue' = RetryOrFailEmail(email_queue, CurrentItem(p),
                                       StoreError)
    /\ pc' = [pc EXCEPT ![p] = "sleep"]
    /\ UNCHANGED <<now, contacts, campaigns, smtp_configs, providers,
                   last_provider_index, is_processing, current_time,
                   pending_emails, cursor, chosen, outbox, outbox_mark,
                   sendVars, helperVars>>

(* _send_queued_email, lines 288-298 and 302-304: the transport accepted   *)
(* the message, the update that records `sent` raises, and the except      *)
(* records a retry or the failure.                                         *)
SentUpdateRaises(p) ==
    /\ pc[p] = "transport"
    /\ Len(outbox) < MaxOutbox
    /\ outbox' = Append(outbox, [email_id |-> CurrentItem(p).id,
                                 account |-> providers[chosen[p]].id])
    /\ email_queue' = RetryOrFailEmail(email_queue, CurrentItem(p),
                                       StoreError)
    /\ chosen' = [chosen EXCEPT ![p] = NoProvider]
    /\ pc' = [pc EXCEPT ![p] = "sleep"]
    /\ UNCHANGED <<now, contacts, campaigns, smtp_configs, providers,
                   last_provider_index, is_processing, current_time,
                   pending_emails, cursor, outbox_mark, sendVars,
                   helperVars>>

(* _send_queued_email, lines 302-304: the update of _retry_or_fail_email   *)
(* in the except raises, after a failure of the lookup, of the transport   *)
(* or of a status update; transmitted tells whether the transport had      *)
(* accepted the message before.                                            *)
RetryUpdateRaises(p, transmitted) ==
    /\ pc[p] \in {"contact", "transport"}
    /\ transmitted => pc[p] = "transport" /\ Len(outbox) < MaxOutbox
    /\ outbox' = IF transmitted
                 THEN Append(outbox, [email_id |-> CurrentItem(p).id,
                                      account |-> providers[chosen[p]].id])
                 ELSE outbox
    /\ CycleAborted(p)
    /\ UNCHANGED <<now, email_queue, contacts, campaigns, smtp_configs,
                   providers, last_provider_index, outbox_mark, sendVars,
                   helperVars>>

Faults ==
    \/ \E p \in Passes : QueryRaises(p)
    \/ \E p \in Passes : ContactLookupRaises(p)
    \/ \E p \in Passes : SentUpdateRaises(p)
    \/ \E p \in Passes : \E transmitted \in BOOLEAN :
          RetryUpdateRaises(p, transmitted)

(* The worker at one instant: one account is active, every contact exists *)
(* and every item is due.                                                  *)
InitFaulty ==
    /\ smtp_configs = AccountDocs(1, 1, [a \in Accounts |-> 0])
    /\ InitCampaigns
    /\ contacts = Items
    /\ email_queue = [i \in Items |->
          NewQueueItem(i, ((i - 1) % NumCampaigns) + 1, i, 0)]
    /\ InitWorker

NextFaulty == Worker \/ Faults

SpecFaulty == InitFaulty /\ [][NextFaulty]_vars

(* C26: an exception raised while an item is processed does not end the    *)
(* cycle: an invocation that has items left after the one it is working on *)
(* does not return from that item.                                         *)
C26_Continues ==
    \A p \in Passes :
        (pc[p] \in {"contact", "transport"}
            /\ cursor[p] < Len(pending_emails[p])) => pc'[p] # "idle"

C26_CycleSurvives == [][C26_Continues]_vars

(* C29: the transport accepts at most one message per queue item, also     *)
(* when the update that records `sent` fails, and an item whose message    *)
(* the transport accepted is not pending again.                            *)
C29_AtMostOnce ==
    /\ \A i \in Items :
          Cardinality({k \in 1..Len(outbox) : outbox[k].email_id = i}) <= 1
    /\ \A k \in 1..Len(outbox) :
          Stored(outbox[k].email_id).status # "pending"

(* C28: is_processing is set exactly while an invocation that set it is    *)
(* between its query and its finally clause, so it is clear once that      *)
(* invocation has ended, normally or through an exception; and an          *)
(* invocation that found the flag set leaves it as it is.                  *)
C28_FlagHeld == is_processing <=> \E p \in Passes : InCycle(p)

C28_SkipKeeps ==
    \A p \in Passes :
        ((pc[p] = "skipped" \/ pc'[p] = "skipped") /\ pc'[p] # pc[p]) =>
            is_processing' = is_processing

C28_Released == [] C28_FlagHeld /\ [][C28_SkipKeeps]_vars

(* An invocation has ended through an exception of the retry update, after *)
(* the transport accepted the message of an item never recorded, and the   *)
(* flag is clear.                                                          *)
C28_Witness ==
    /\ ~is_processing
    /\ \A p \in Passes : pc[p] = "idle"
    /\ \E k \in 1..Len(outbox) :
          /\ Stored(outbox[k].email_id).status = "pending"
          /\ Stored(outbox[k].email_id).attempts = 0

(***************************************************************************)
(* The worker as run_email_processor runs it: one loop that awaits         *)
(* process_queue and sleeps, for ever (lines 459-470), on a store that     *)
(* does not raise.  The loop is invocation 1.  Between two cycles time     *)
(* passes; the worker compares the clock with nothing but the scheduled_at *)
(* of the items it may select, so the clock is advanced from one such      *)
(* instant to the next.                                                    *)
(***************************************************************************)
Waiting ==
    {i \in DOMAIN email_queue :
        /\ email_queue[i].status = "pending"
        /\ email_queue[i].attempts < AttemptsFilter
        /\ email_queue[i].scheduled_at > now}

(* The clock reaches the next instant at which a waiting item is due. *)
TickToDue ==
    /\ Waiting # {}
    /\ now' = CHOOSE t \in {email_queue[i].scheduled_at : i \in Waiting} :
                 \A i \in Waiting : t <= email_queue[i].scheduled_at
    /\ UNCHANGED <<campaigns, smtp_configs, queueVars, sendVars, helperVars>>

RunEmailProcessor ==
    \/ ProcessQueueEnter(1)
    \/ ProcessQueueQuery(1)
    \/ SendQueuedEmail(1)
    \/ \E success \in BOOLEAN : TransportReply(1, success)
    \/ PacingSleep(1)

NextLive == RunEmailProcessor \/ TickToDue

(* No account or one account is active; the last contact may be missing   *)
(* and one item may be scheduled for later.                                *)
InitLive ==
    /\ \E nActive \in {0, 1} :
          smtp_configs = AccountDocs(nActive, 1, [a \in Accounts |-> 0])
    /\ InitCampaigns
    /\ contacts \in {Items, Items \ {NumItems}}
    /\ \E late \in {{}} \cup {{i} : i \in Items} :
          email_queue = [i \in Items |->
              NewQueueItem(i, ((i - 1) % NumCampaigns) + 1, i,
                           IF i \in late THEN TickStep ELSE 0)]
    /\ InitWorker

(* The loop keeps running and time keeps passing. *)
SpecLive ==
    /\ InitLive
    /\ [][NextLive]_vars
    /\ WF_vars(RunEmailProcessor)
    /\ WF_vars(TickToDue)

(* C27: while cycles keep running and time keeps advancing, every queue    *)
(* item is eventually sent or failed; a failed item has an error_message,  *)
(* and no item is retried once it has failed max_attempts - 1 times, so an *)
(* item whose transport attempts all fail is failed by the third.          *)
C27_Bounded ==
    \A i \in Items :
        /\ Stored(i).attempts < Stored(i).max_attempts
        /\ Stored(i).status = "failed" => Stored(i).error_message # NoError

C27_Terminates ==
    /\ \A i \in Items : <>Terminal(Stored(i))
    /\ [] C27_Bounded

(* An item has failed at its third transport attempt. *)
C27_Witness ==
    \E i \in Items :
        /\ Stored(i).status = "failed"
        /\ Stored(i).error_message = TransportError
        /\ Stored(i).attempts = DefaultMaxAttempts - 1

====
